---------------------------- MODULE Spec2Model ----------------------------
(***************************************************************************)
(* A model of the mBoB banking program: the BankAccount class (balance,    *)
(* transaction log, deposit / withdraw / transfer / mobile_topup /         *)
(* get_transactions) and the BankingApp handlers that drive it (sign_up,   *)
(* login, logout, deposit, withdraw, transfer, mobile_topup,               *)
(* update_display).                                                        *)
(*                                                                         *)
(* Amounts are integers (Nu.); the float cases NaN and infinity are not    *)
(* modelled.  A BankAccount object is identified by the key under which    *)
(* it is held (its acc_no).  A transaction record, an f-string in the      *)
(* source, is the sequence of its literal pieces and interpolated values.  *)
(***************************************************************************)
EXTENDS Integers, Sequences, FiniteSets, TLC

VARIABLES
    accounts,   \* acc_no -> BankAccount object (BankingApp.accounts / the objects of setUp)
    current,    \* BankingApp.current: acc_no of the logged-in account, or None
    screen,     \* which widgets the window shows: "main" (main_menu) or "dashboard"
    display,    \* what update_display last rendered: balance label and transaction text
    msg,        \* the last messagebox: <<kind, title, text>>
    pc,         \* position of the control thread: "idle" (event loop / between calls) or a line of transfer
    frame,      \* the running transfer call: self, target, amount, caller
    last,       \* the call made last: operation and its arguments
    result,     \* how the last BankAccount call ended: Returned, Running or the exception raised
    pre,        \* accounts and current as they were when the last call was made
    view        \* the list object a caller holds from get_transactions: the acc_no owning it, or None

vars == <<accounts, current, screen, display, msg, pc, frame, last, result, pre, view>>

-----------------------------------------------------------------------------
(* Bounds and input sets *)

\* accepted operations are explored while the logs hold at most this many
\* records in total: MaxTxns for direct calls, MaxAppTxns through the window
MaxTxns == 3

MaxAppTxns == 2

MaxBalance == 4000    \* deposits are explored while the balance stays within this

None == "None"

AccNos == {"001", "002"}

Amounts == {-100, 0, 200, 1000}          \* amounts given to the BankAccount methods directly

SetUpBalances(acc_no) == IF acc_no = "001" THEN {0, 1000} ELSE {0, 500}

MobileNumbers == {"17123456"}

-----------------------------------------------------------------------------
(* Exceptions and results *)

InvalidAmountError(text) == [type |-> "InvalidAmountError", text |-> text]

InsufficientFundsError(text) == [type |-> "InsufficientFundsError", text |-> text]

Returned == [type |-> "returned", text |-> ""]

Running == [type |-> "running", text |-> ""]

NoFrame == [self |-> None, target |-> None, amount |-> 0, caller |-> None]

NoDisplay == [balance |-> 0, text |-> <<>>, shown |-> FALSE]

NoMsg == <<"none", "", <<>>>>

-----------------------------------------------------------------------------
(* BankAccount *)

BankAccount(acc_no, name, password, acc_type, balance) ==
    [acc_no |-> acc_no, name |-> name, password |-> password,
     acc_type |-> acc_type, balance |-> balance, transactions |-> <<>>]

DepositedRecord(amount) == <<"Deposited Nu.", amount>>

WithdrewRecord(amount) == <<"Withdrew Nu.", amount>>

\* the sender's record with the target's name and number interchanged
SentRecord_swaps_fields(amount, target) ==
    <<"Sent Nu.", amount, " to ", target.acc_no, " (Acc: ", target.name, ")">>

SentRecord(amount, target) ==
    <<"Sent Nu.", amount, " to ", target.name, " (Acc: ", target.acc_no, ")">>

ReceivedRecord(amount, self) ==
    <<"Received Nu.", amount, " from ", self.name, " (Acc: ", self.acc_no, ")">>

TopupRecord(amount, number) == <<"Mobile top-up Nu.", amount, " to ", number>>

TotalTxns(accs) ==
    LET RECURSIVE Sum(_)
        Sum(S) == IF S = {} THEN 0
                  ELSE LET k == CHOOSE x \in S : TRUE
                       IN Len(accs[k].transactions) + Sum(S \ {k})
    IN Sum(DOMAIN accs)

Room(k, max) == TotalTxns(accounts) + k <= max

\* deposit refusing only negative amounts (amount < 0 for amount <= 0)
deposit_accepts_zero(accs, self, amount) ==
    IF amount < 0 THEN <<InvalidAmountError("Amount must be positive"), accs>>
    ELSE <<Returned,
           [accs EXCEPT ![self].balance = @ + amount,
                        ![self].transactions = Append(@, DepositedRecord(amount))]>>

\* deposit putting its record in front (insert(0, ...) for append)
deposit_prepends(accs, self, amount) ==
    IF amount <= 0 THEN <<InvalidAmountError("Amount must be positive"), accs>>
    ELSE <<Returned,
           [accs EXCEPT ![self].balance = @ + amount,
                        ![self].transactions = <<DepositedRecord(amount)>> \o @]>>

\* deposit replacing the balance by the amount (= for +=)
deposit_assigns(accs, self, amount) ==
    IF amount <= 0 THEN <<InvalidAmountError("Amount must be positive"), accs>>
    ELSE <<Returned,
           [accs EXCEPT ![self].balance = amount,
                        ![self].transactions = Append(@, DepositedRecord(amount))]>>

\* deposit with one history list shared by all accounts (a mutable default
\* argument in __init__): the record shows up in every account's history
deposit_shared_log(accs, self, amount) ==
    IF amount <= 0 THEN <<InvalidAmountError("Amount must be positive"), accs>>
    ELSE <<Returned,
           [k \in DOMAIN accs |->
               [accs[k] EXCEPT !.balance = IF k = self THEN @ + amount ELSE @,
                               !.transactions = Append(@, DepositedRecord(amount))]]>>

\* deposit: the outcome for account self and amount, as <<result, accounts after>>
deposit(accs, self, amount) ==
    IF amount <= 0 THEN <<InvalidAmountError("Amount must be positive"), accs>>
    ELSE <<Returned,
           [accs EXCEPT ![self].balance = @ + amount,
                        ![self].transactions = Append(@, DepositedRecord(amount))]>>

\* withdraw without the check of line 52
withdraw_unchecked(accs, self, amount) ==
    IF amount <= 0 THEN <<InvalidAmountError("Amount must be positive"), accs>>
    ELSE <<Returned,
           [accs EXCEPT ![self].balance = @ - amount,
                        ![self].transactions = Append(@, WithdrewRecord(amount))]>>

\* withdraw refusing the whole balance (>= for > in line 52)
withdraw_refuses_all(accs, self, amount) ==
    IF amount <= 0 THEN <<InvalidAmountError("Amount must be positive"), accs>>
    ELSE IF amount >= accs[self].balance
    THEN <<InsufficientFundsError("Not enough balance"), accs>>
    ELSE <<Returned,
           [accs EXCEPT ![self].balance = @ - amount,
                        ![self].transactions = Append(@, WithdrewRecord(amount))]>>

\* withdraw keeping only the newest record
withdraw_overwrites(accs, self, amount) ==
    IF amount <= 0 THEN <<InvalidAmountError("Amount must be positive"), accs>>
    ELSE IF amount > accs[self].balance
    THEN <<InsufficientFundsError("Not enough balance"), accs>>
    ELSE <<Returned,
           [accs EXCEPT ![self].balance = @ - amount,
                        ![self].transactions = <<WithdrewRecord(amount)>>]>>

withdraw(accs, self, amount) ==
    IF amount <= 0 THEN <<InvalidAmountError("Amount must be positive"), accs>>
    ELSE IF amount > accs[self].balance
    THEN <<InsufficientFundsError("Not enough balance"), accs>>
    ELSE <<Returned,
           [accs EXCEPT ![self].balance = @ - amount,
                        ![self].transactions = Append(@, WithdrewRecord(amount))]>>

\* mobile_topup refusing for lack of funds only after the balance was debited
mobile_topup_debits_first(accs, self, amount, number) ==
    IF amount <= 0 THEN <<InvalidAmountError("Amount must be positive"), accs>>
    ELSE IF amount > accs[self].balance
    THEN <<InsufficientFundsError("Not enough balance"),
           [accs EXCEPT ![self].balance = @ - amount]>>
    ELSE <<Returned,
           [accs EXCEPT ![self].balance = @ - amount,
                        ![self].transactions = Append(@, TopupRecord(amount, number))]>>

mobile_topup(accs, self, amount, number) ==
    IF amount <= 0 THEN <<InvalidAmountError("Amount must be positive"), accs>>
    ELSE IF amount > accs[self].balance
    THEN <<InsufficientFundsError("Not enough balance"), accs>>
    ELSE <<Returned,
           [accs EXCEPT ![self].balance = @ - amount,
                        ![self].transactions = Append(@, TopupRecord(amount, number))]>>

\* transfer, lines 59-64: the checks made before anything is changed
transfer_check(accs, self, amount, target) ==
    IF amount <= 0 THEN InvalidAmountError("Amount must be positive")
    ELSE IF amount > accs[self].balance THEN InsufficientFundsError("Not enough balance")
    ELSE IF target = self THEN InvalidAmountError("Cannot transfer to same account")
    ELSE Running


\* transfer, lines 65-68, one definition per statement; f is the call's frame
transfer_65(accs, f) == [accs EXCEPT ![f.self].balance = @ - f.amount]

\* line 66 crediting the sender again instead of the target
transfer_66_credits_self(accs, f) == [accs EXCEPT ![f.self].balance = @ + f.amount]

transfer_66(accs, f) == [accs EXCEPT ![f.target].balance = @ + f.amount]

transfer_67(accs, f) ==
    [accs EXCEPT ![f.self].transactions = Append(@, SentRecord(f.amount, accs[f.target]))]

\* line 68 missing: the receiver gets no record
transfer_68_missing(accs, f) == accs

transfer_68(accs, f) ==
    [accs EXCEPT ![f.target].transactions = Append(@, ReceivedRecord(f.amount, accs[f.self]))]

\* transfer returning after the two balance statements
transfer_next_returns_early(p) ==
    CASE p = "L65" -> "L66"
      [] p = "L66" -> "return"
      [] p = "L67" -> "L68"
      [] p = "L68" -> "return"

\* the statement executed after the one at p; transfer returns after line 68
transfer_next(p) ==
    CASE p = "L65" -> "L66"
      [] p = "L66" -> "L67"
      [] p = "L67" -> "L68"
      [] p = "L68" -> "return"

\* get_transactions returns the list object self.transactions itself: the
\* returned value is identified by the account that owns the list.  A value
\* with list = "copy" would be a list of its own, holding items.
get_transactions(accs, self) == [list |-> self, items |-> <<>>]

NoView == [list |-> None, items |-> <<>>]

\* the contents of a list object a caller holds
ViewItems(accs, v) ==
    IF v.list \in DOMAIN accs THEN accs[v.list].transactions ELSE v.items

-----------------------------------------------------------------------------
(* Calls of the BankAccount methods, as the unit tests make them *)

Call(op, self, amount, target, number) ==
    [op |-> op, self |-> self, amount |-> amount, target |-> target, number |-> number]

Snapshot == [accounts |-> accounts, current |-> current]

Deposit(self, amount) ==
    /\ pc = "idle"
    /\ self \in DOMAIN accounts
    /\ LET r == deposit(accounts, self, amount)
       IN /\ r[1] = Returned => Room(1, MaxTxns) /\ r[2][self].balance <= MaxBalance
          /\ result' = r[1]
          /\ accounts' = r[2]
    /\ last' = Call("deposit", self, amount, None, "")
    /\ pre' = Snapshot
    /\ UNCHANGED <<current, screen, display, msg, pc, frame, view>>

Withdraw(self, amount) ==
    /\ pc = "idle"
    /\ self \in DOMAIN accounts
    /\ LET r == withdraw(accounts, self, amount)
       IN /\ r[1] = Returned => Room(1, MaxTxns)
          /\ result' = r[1]
          /\ accounts' = r[2]
    /\ last' = Call("withdraw", self, amount, None, "")
    /\ pre' = Snapshot
    /\ UNCHANGED <<current, screen, display, msg, pc, frame, view>>

MobileTopup(self, amount, number) ==
    /\ pc = "idle"
    /\ self \in DOMAIN accounts
    /\ LET r == mobile_topup(accounts, self, amount, number)
       IN /\ r[1] = Returned => Room(1, MaxTxns)
          /\ result' = r[1]
          /\ accounts' = r[2]
    /\ last' = Call("mobile_topup", self, amount, None, number)
    /\ pre' = Snapshot
    /\ UNCHANGED <<current, screen, display, msg, pc, frame, view>>

\* the call of transfer up to line 64: it raises, or goes on to line 65
Transfer(self, amount, target) ==
    /\ pc = "idle"
    /\ self \in DOMAIN accounts
    /\ target \in DOMAIN accounts
    /\ LET r == transfer_check(accounts, self, amount, target)
       IN /\ r = Running => Room(2, MaxTxns)
          /\ result' = r
          /\ pc' = IF r = Running THEN "L65" ELSE "idle"
          /\ frame' = IF r = Running
                      THEN [self |-> self, target |-> target, amount |-> amount,
                            caller |-> "test"]
                      ELSE NoFrame
    /\ last' = Call("transfer", self, amount, target, "")
    /\ pre' = Snapshot
    /\ UNCHANGED <<accounts, current, screen, display, msg, view>>

\* where control goes when the statement at pc is done
AfterLine ==
    LET n == transfer_next(pc)
    IN IF n # "return" THEN n
       ELSE IF frame.caller = "app" THEN "L237" ELSE "idle"

TransferStep(line, accs) ==
    /\ pc = line
    /\ accounts' = accs
    /\ pc' = AfterLine
    /\ result' = IF transfer_next(pc) = "return" THEN Returned ELSE result
    /\ frame' = IF pc' = "idle" THEN NoFrame ELSE frame
    /\ UNCHANGED <<current, screen, display, msg, last, pre, view>>

TransferDebit == TransferStep("L65", transfer_65(accounts, frame))

TransferCredit == TransferStep("L66", transfer_66(accounts, frame))

TransferLogSent == TransferStep("L67", transfer_67(accounts, frame))

TransferLogReceived == TransferStep("L68", transfer_68(accounts, frame))

GetTransactions(self) ==
    /\ pc = "idle"
    /\ self \in DOMAIN accounts
    /\ view' = get_transactions(accounts, self)
    /\ result' = Returned
    /\ last' = Call("get_transactions", self, 0, None, "")
    /\ pre' = Snapshot
    /\ UNCHANGED <<accounts, current, screen, display, msg, pc, frame>>

\* setUp of the unit tests: two accounts, none logged in, no window
setUp ==
    /\ \E b1 \in SetUpBalances("001"), b2 \in SetUpBalances("002") :
         accounts = [k \in AccNos |->
                       IF k = "001"
                       THEN BankAccount("001", "Alice", "pass123", "Personal", b1)
                       ELSE BankAccount("002", "Bob", "pass456", "Business", b2)]
    /\ current = None
    /\ screen = "none"
    /\ display = NoDisplay
    /\ msg = NoMsg
    /\ pc = "idle"
    /\ frame = NoFrame
    /\ last = Call("setUp", None, 0, None, "")
    /\ result = Returned
    /\ pre = Snapshot
    /\ view = NoView

-----------------------------------------------------------------------------
(* BankingApp: the handlers behind the buttons.  A dialog that is cancelled *)
(* or left empty gives "" (askstring) or a cancelled AskFloat (askfloat).   *)

GuiAmounts == {200, 1000}     \* amounts typed into askfloat(minvalue=0.01)

Typed(v) == [cancel |-> FALSE, value |-> v]

Cancelled == [cancel |-> TRUE, value |-> 0]

MinOpening == 0     \* askfloat("Opening balance (Nu.):", minvalue=0)

\* askfloat with a minimum: the dialog refuses an entry below minvalue and
\* stays open; typed is what the user enters, in order, before giving up
askfloat(typed, minvalue) ==
    LET ok == {i \in 1..Len(typed) : typed[i] >= minvalue}
    IN IF ok = {} THEN Cancelled
       ELSE Typed(typed[CHOOSE i \in ok : \A j \in ok : i <= j])

\* what two people type into the sign-up dialogs, each able to ask for either number
SignUpForms ==
    {[acc_no |-> n, name |-> f[1], acc_type |-> f[2], password |-> f[3], bal |-> <<f[4]>>] :
        n \in AccNos, f \in {<<"Alice", "personal", "p1", 1000>>,
                             <<"Bob", "BUSINESS", "p2", 500>>}}

\* a form, or a form with one dialog cancelled, left empty or filled in wrongly
SignUpInputs ==
    UNION {{f, [f EXCEPT !.acc_no = ""], [f EXCEPT !.name = ""],
            [f EXCEPT !.acc_type = ""], [f EXCEPT !.acc_type = "gold"],
            [f EXCEPT !.password = ""], [f EXCEPT !.bal = <<>>],
            [f EXCEPT !.bal = <<-100>>]} : f \in SignUpForms}

AccNoInputs == AccNos \cup {""}

PasswordInputs == {"", "p1", "p2"}

TargetInputs == AccNoInputs \cup {"003"}     \* no form of SignUpForms asks for "003"

Lower(s) == CASE s = "BUSINESS" -> "business" [] s = "Business" -> "business"
              [] s = "Personal" -> "personal" [] OTHER -> s

Capitalize(s) == CASE Lower(s) = "business" -> "Business"
                   [] Lower(s) = "personal" -> "Personal"
                   [] Lower(s) = "gold" -> "Gold"
                   [] OTHER -> s

AskFloat == {Cancelled} \cup {Typed(v) : v \in GuiAmounts}

Truthy(r) == ~r.cancel /\ r.value # 0

NotCalled == [type |-> "not called", text |-> ""]

showerror(text) == <<"showerror", "Error", text>>

showinfo(text) == <<"showinfo", "Success", text>>

\* update_display: the balance label, formatted :.2f, and one line per record
update_display(accs, cur) ==
    [balance |-> <<"Balance: Nu.", accs[cur].balance, ".00">>,
     text |-> accs[cur].transactions,
     shown |-> TRUE]

\* sign_up without the check of lines 123-125: a taken number is given away again
sign_up_overwrites(accs, acc_no, name, acc_type, password, bal) ==
    IF acc_no = "" THEN <<NoMsg, accs>>
    ELSE IF name = "" THEN <<NoMsg, accs>>
    ELSE IF acc_type = "" \/ Lower(acc_type) \notin {"personal", "business"}
    THEN <<showerror(<<"Invalid account type. Please enter Personal or Business.">>), accs>>
    ELSE IF password = "" THEN <<NoMsg, accs>>
    ELSE IF bal.cancel THEN <<NoMsg, accs>>
    ELSE <<showinfo(<<Capitalize(acc_type), " account created for ", name,
                      "\nAcc No: ", acc_no>>),
           (acc_no :> BankAccount(acc_no, name, password, Capitalize(acc_type), bal.value))
              @@ accs>>

\* sign_up taking any non-empty account type
sign_up_any_type(accs, acc_no, name, acc_type, password, bal) ==
    IF acc_no = "" THEN <<NoMsg, accs>>
    ELSE IF acc_no \in DOMAIN accs
    THEN <<showerror(<<"Account number already exists">>), accs>>
    ELSE IF name = "" THEN <<NoMsg, accs>>
    ELSE IF acc_type = ""
    THEN <<showerror(<<"Invalid account type. Please enter Personal or Business.">>), accs>>
    ELSE IF password = "" THEN <<NoMsg, accs>>
    ELSE IF bal.cancel THEN <<NoMsg, accs>>
    ELSE <<showinfo(<<Capitalize(acc_type), " account created for ", name,
                      "\nAcc No: ", acc_no>>),
           (acc_no :> BankAccount(acc_no, name, password, Capitalize(acc_type), bal.value))
              @@ accs>>

\* sign_up: <<messagebox, accounts after>>; a dialog after a failed one is never shown
sign_up(accs, acc_no, name, acc_type, password, bal) ==
    IF acc_no = "" THEN <<NoMsg, accs>>
    ELSE IF acc_no \in DOMAIN accs
    THEN <<showerror(<<"Account number already exists">>), accs>>
    ELSE IF name = "" THEN <<NoMsg, accs>>
    ELSE IF acc_type = "" \/ Lower(acc_type) \notin {"personal", "business"}
    THEN <<showerror(<<"Invalid account type. Please enter Personal or Business.">>), accs>>
    ELSE IF password = "" THEN <<NoMsg, accs>>
    ELSE IF bal.cancel THEN <<NoMsg, accs>>
    ELSE <<showinfo(<<Capitalize(acc_type), " account created for ", name,
                      "\nAcc No: ", acc_no>>),
           (acc_no :> BankAccount(acc_no, name, password, Capitalize(acc_type), bal.value))
              @@ accs>>

SignUp(acc_no, name, acc_type, password, bal) ==
    /\ pc = "idle"
    /\ screen = "main"
    /\ LET r == sign_up(accounts, acc_no, name, acc_type, password,
                        askfloat(bal, MinOpening))
       IN /\ msg' = r[1]
          /\ accounts' = r[2]
    /\ last' = [op |-> "sign_up", acc_no |-> acc_no, name |-> name,
                acc_type |-> acc_type, password |-> password, bal |-> bal]
    /\ result' = NotCalled
    /\ pre' = Snapshot
    /\ UNCHANGED <<current, screen, display, pc, frame, view>>

\* login setting self.current before the password is compared
login_sets_current_early(accs, cur, acc_no, password) ==
    IF DOMAIN accs = {} THEN <<showerror(<<"No accounts available">>), cur>>
    ELSE IF acc_no = "" \/ acc_no \notin DOMAIN accs
    THEN <<showerror(<<"Account not found">>), cur>>
    ELSE IF password # accs[acc_no].password
    THEN <<showerror(<<"Incorrect password">>), acc_no>>
    ELSE <<showinfo(<<"Welcome ", accs[acc_no].name, "!">>), acc_no>>

\* login: <<messagebox, current after>>
login(accs, cur, acc_no, password) ==
    IF DOMAIN accs = {} THEN <<showerror(<<"No accounts available">>), cur>>
    ELSE IF acc_no = "" \/ acc_no \notin DOMAIN accs
    THEN <<showerror(<<"Account not found">>), cur>>
    ELSE IF password # accs[acc_no].password
    THEN <<showerror(<<"Incorrect password">>), cur>>
    ELSE <<showinfo(<<"Welcome ", accs[acc_no].name, "!">>), acc_no>>

Login(acc_no, password) ==
    /\ pc = "idle"
    /\ screen = "main"
    /\ LET r == login(accounts, current, acc_no, password)
       IN /\ msg' = r[1]
          /\ current' = r[2]
          /\ IF r[1][1] = "showinfo"
             THEN /\ screen' = "dashboard"
                  /\ display' = update_display(accounts, r[2])
             ELSE UNCHANGED <<screen, display>>
    /\ last' = [op |-> "login", acc_no |-> acc_no, password |-> password]
    /\ result' = NotCalled
    /\ pre' = Snapshot
    /\ UNCHANGED <<accounts, pc, frame, view>>

\* logout leaving self.current as it is and only going back to the main menu
logout_keeps_session(cur) == [current |-> cur, screen |-> "main", display |-> NoDisplay]

\* logout: the session, the screen and the dashboard widgets after it, whoever was logged in
logout(cur) == [current |-> None, screen |-> "main", display |-> NoDisplay]

Logout ==
    /\ pc = "idle"
    /\ screen = "dashboard"
    /\ current' = logout(current).current
    /\ screen' = logout(current).screen
    /\ display' = logout(current).display
    /\ msg' = NoMsg
    /\ last' = [op |-> "logout"]
    /\ result' = NotCalled
    /\ pre' = Snapshot
    /\ UNCHANGED <<accounts, pc, frame, view>>

\* the part the deposit, withdraw and mobile_topup handlers share: r is the
\* outcome of the BankAccount call, ok the text of the success message
AfterCall(r, ok) ==
    /\ result' = r[1]
    /\ accounts' = r[2]
    /\ IF r[1] = Returned
       THEN /\ display' = update_display(r[2], current)
            /\ msg' = showinfo(ok)
       ELSE /\ display' = display
            /\ msg' = showerror(<<r[1].text>>)

NoCall ==
    /\ result' = NotCalled
    /\ msg' = NoMsg
    /\ UNCHANGED <<accounts, display>>

AppDeposit(amt) ==
    /\ pc = "idle"
    /\ screen = "dashboard"
    /\ IF Truthy(amt)
       THEN LET r == deposit(accounts, current, amt.value)
            IN /\ r[1] = Returned => Room(1, MaxAppTxns)
               /\ AfterCall(r, <<"Deposited Nu.", amt.value>>)
       ELSE NoCall
    /\ last' = [op |-> "app_deposit", self |-> current, amount |-> amt]
    /\ pre' = Snapshot
    /\ UNCHANGED <<current, screen, pc, frame, view>>

\* the withdraw handler debiting whichever registered account, not self.current
AppWithdraw_any_account(amt) ==
    /\ pc = "idle"
    /\ screen = "dashboard"
    /\ IF Truthy(amt)
       THEN \E a \in DOMAIN accounts :
            LET r == withdraw(accounts, a, amt.value)
            IN /\ r[1] = Returned => Room(1, MaxAppTxns)
               /\ AfterCall(r, <<"Withdrew Nu.", amt.value>>)
       ELSE NoCall
    /\ last' = [op |-> "app_withdraw", self |-> current, amount |-> amt]
    /\ pre' = Snapshot
    /\ UNCHANGED <<current, screen, pc, frame, view>>

AppWithdraw(amt) ==
    /\ pc = "idle"
    /\ screen = "dashboard"
    /\ IF Truthy(amt)
       THEN LET r == withdraw(accounts, current, amt.value)
            IN /\ r[1] = Returned => Room(1, MaxAppTxns)
               /\ AfterCall(r, <<"Withdrew Nu.", amt.value>>)
       ELSE NoCall
    /\ last' = [op |-> "app_withdraw", self |-> current, amount |-> amt]
    /\ pre' = Snapshot
    /\ UNCHANGED <<current, screen, pc, frame, view>>

AppMobileTopup(number, amt) ==
    /\ pc = "idle"
    /\ screen = "dashboard"
    /\ IF number # "" /\ Truthy(amt)
       THEN LET r == mobile_topup(accounts, current, amt.value, number)
            IN /\ r[1] = Returned => Room(1, MaxAppTxns)
               /\ AfterCall(r, <<"Topped up Nu.", amt.value, " to ", number>>)
       ELSE NoCall
    /\ last' = [op |-> "app_mobile_topup", self |-> current, number |-> number,
                amount |-> IF number = "" THEN Cancelled ELSE amt]
    /\ pre' = Snapshot
    /\ UNCHANGED <<current, screen, pc, frame, view>>

\* the recipient check without its third condition: the own number passes
transfer_target_allows_self(accs, cur, target_acc) ==
    IF Cardinality(DOMAIN accs) < 2 THEN showerror(<<"Need at least 2 accounts">>)
    ELSE IF target_acc = "" \/ target_acc \notin DOMAIN accs
    THEN showerror(<<"Invalid recipient">>)
    ELSE NoMsg

\* BankingApp.transfer, lines 224-231: the recipient is refused, or resolved
transfer_target(accs, cur, target_acc) ==
    IF Cardinality(DOMAIN accs) < 2 THEN showerror(<<"Need at least 2 accounts">>)
    ELSE IF target_acc = "" \/ target_acc \notin DOMAIN accs \/ target_acc = accs[cur].acc_no
    THEN showerror(<<"Invalid recipient">>)
    ELSE NoMsg

\* BankingApp.transfer up to the call of BankAccount.transfer, and the call's checks
AppTransfer(target_acc, amt) ==
    /\ pc = "idle"
    /\ screen = "dashboard"
    /\ LET m == transfer_target(accounts, current, target_acc)
           call == m = NoMsg /\ Truthy(amt)
           r == IF call THEN transfer_check(accounts, current, amt.value, target_acc)
                ELSE NotCalled
       IN /\ r = Running => Room(2, MaxAppTxns)
          /\ result' = r
          /\ msg' = IF call /\ r # Running THEN showerror(<<r.text>>) ELSE m
          /\ pc' = IF r = Running THEN "L65" ELSE "idle"
          /\ frame' = IF r = Running
                      THEN [self |-> current, target |-> target_acc,
                            amount |-> amt.value, caller |-> "app"]
                      ELSE NoFrame
          /\ last' = [op |-> "app_transfer", self |-> current, target |-> target_acc,
                      amount |-> IF m = NoMsg THEN amt ELSE Cancelled]
    /\ pre' = Snapshot
    /\ UNCHANGED <<accounts, current, screen, display, view>>

\* BankingApp.transfer, lines 237-238, after BankAccount.transfer has returned
AppTransferDone ==
    /\ pc = "L237"
    /\ display' = update_display(accounts, current)
    /\ msg' = showinfo(<<"Transferred Nu.", frame.amount, " to ", frame.target>>)
    /\ pc' = "idle"
    /\ frame' = NoFrame
    /\ UNCHANGED <<accounts, current, screen, last, result, pre, view>>

\* BankingApp.__init__: no accounts, nobody logged in, the main menu shown
AppInit ==
    /\ accounts = <<>>
    /\ current = None
    /\ screen = "main"
    /\ display = NoDisplay
    /\ msg = NoMsg
    /\ pc = "idle"
    /\ frame = NoFrame
    /\ last = [op |-> "__init__"]
    /\ result = NotCalled
    /\ pre = Snapshot
    /\ view = NoView

AppNext ==
    \/ \E f \in SignUpInputs : SignUp(f.acc_no, f.name, f.acc_type, f.password, f.bal)
    \/ \E n \in AccNoInputs, p \in PasswordInputs : Login(n, p)
    \/ Logout
    \/ \E amt \in AskFloat : AppDeposit(amt)
    \/ \E amt \in AskFloat : AppWithdraw(amt)
    \/ \E number \in MobileNumbers \cup {""}, amt \in AskFloat : AppMobileTopup(number, amt)
    \/ \E target_acc \in TargetInputs, amt \in AskFloat : AppTransfer(target_acc, amt)
    \/ TransferDebit
    \/ TransferCredit
    \/ TransferLogSent
    \/ TransferLogReceived
    \/ AppTransferDone

AppSpec == AppInit /\ [][AppNext]_vars

\* three customers, each signing up with a number of their own, so that a
\* transfer leaves a third account uninvolved
FrameForms ==
    {[acc_no |-> f[1], name |-> f[2], acc_type |-> f[3], password |-> f[4], bal |-> <<f[5]>>] :
        f \in {<<"001", "Alice", "personal", "p1", 1000>>,
               <<"002", "Bob", "BUSINESS", "p2", 500>>,
               <<"003", "Carol", "Personal", "p3", 0>>}}

FrameAccNos == {f.acc_no : f \in FrameForms}

FramePasswords == {f.password : f \in FrameForms}

FrameNext ==
    \/ \E f \in FrameForms : SignUp(f.acc_no, f.name, f.acc_type, f.password, f.bal)
    \/ \E n \in FrameAccNos, p \in FramePasswords : Login(n, p)
    \/ Logout
    \/ \E amt \in AskFloat : AppDeposit(amt)
    \/ \E amt \in AskFloat : AppWithdraw(amt)
    \/ \E number \in MobileNumbers, amt \in AskFloat : AppMobileTopup(number, amt)
    \/ \E target_acc \in FrameAccNos, amt \in AskFloat : AppTransfer(target_acc, amt)
    \/ TransferDebit
    \/ TransferCredit
    \/ TransferLogSent
    \/ TransferLogReceived
    \/ AppTransferDone

FrameSpec == AppInit /\ [][FrameNext]_vars

Init == setUp

Next ==
    \/ \E self \in AccNos, amount \in Amounts : Deposit(self, amount)
    \/ \E self \in AccNos, amount \in Amounts : Withdraw(self, amount)
    \/ \E self \in AccNos, amount \in Amounts, number \in MobileNumbers :
         MobileTopup(self, amount, number)
    \/ \E self \in AccNos, amount \in Amounts, target \in AccNos :
         Transfer(self, amount, target)
    \/ TransferDebit
    \/ TransferCredit
    \/ TransferLogSent
    \/ TransferLogReceived

Spec == Init /\ [][Next]_vars

-----------------------------------------------------------------------------
(* A caller of get_transactions working on the list it was handed *)

ForgedRecord == <<"Deposited Nu.", 1000>>

\* a change made through the list object v: to the account's own list when v
\* is that list, to the caller's copy otherwise
Mutate(v, items) ==
    IF v.list \in DOMAIN accounts
    THEN /\ accounts' = [accounts EXCEPT ![v.list].transactions = items]
         /\ view' = view
    ELSE /\ view' = [view EXCEPT !.items = items]
         /\ accounts' = accounts

CallerMutates(op, items) ==
    /\ pc = "idle"
    /\ view # NoView
    /\ Mutate(view, items)
    /\ last' = Call(op, view.list, 0, None, "")
    /\ result' = Returned
    /\ pre' = Snapshot
    /\ UNCHANGED <<current, screen, display, msg, pc, frame>>

\* get_transactions().append(record)
CallerAppends ==
    /\ Room(1, MaxTxns)
    /\ CallerMutates("view.append", Append(ViewItems(accounts, view), ForgedRecord))

\* get_transactions().pop()
CallerRemoves ==
    /\ ViewItems(accounts, view) # <<>>
    /\ CallerMutates("view.pop", SubSeq(ViewItems(accounts, view), 1,
                                         Len(ViewItems(accounts, view)) - 1))

\* get_transactions()[-1] = record
CallerReplaces ==
    /\ ViewItems(accounts, view) # <<>>
    /\ ViewItems(accounts, view)[Len(ViewItems(accounts, view))] # ForgedRecord
    /\ CallerMutates("view.setitem",
                     [ViewItems(accounts, view)
                        EXCEPT ![Len(ViewItems(accounts, view))] = ForgedRecord])

ViewAmounts == {0, 1000}

ViewNext ==
    \/ \E self \in AccNos, amount \in ViewAmounts : Deposit(self, amount)
    \/ \E self \in AccNos, amount \in ViewAmounts : Withdraw(self, amount)
    \/ \E self \in AccNos : GetTransactions(self)
    \/ CallerAppends
    \/ CallerRemoves
    \/ CallerReplaces

ViewSpec == Init /\ [][ViewNext]_vars

-----------------------------------------------------------------------------
(* Properties *)

AccountOps == {"deposit", "withdraw", "transfer", "mobile_topup"}

Balance(accs, a) == accs[a].balance

Log(accs, a) == accs[a].transactions

IsPrefix(s, t) == Len(s) <= Len(t) /\ SubSeq(t, 1, Len(s)) = s

Raised(type) == result.type = type

\* C1: every account's balance is at least 0 in every state, after accepted
\* and after rejected calls of deposit, withdraw, transfer and mobile_topup.
BalanceNonNegative == \A a \in DOMAIN accounts : Balance(accounts, a) >= 0

\* an accepted debit of the whole balance: the balance is exactly 0
BalanceNonNegativeWitness ==
    /\ last.op \in {"withdraw", "mobile_topup"}
    /\ result = Returned
    /\ Balance(pre.accounts, last.self) > 0
    /\ Balance(accounts, last.self) = 0

\* C2: when transfer(x, B) on A has returned, A's balance is x lower, B's is
\* x higher, and the two balances add up to what they added up to before.
TransferConserves ==
    (last.op = "transfer" /\ result = Returned) =>
        /\ last.self # last.target
        /\ Balance(accounts, last.self) = Balance(pre.accounts, last.self) - last.amount
        /\ Balance(accounts, last.target) = Balance(pre.accounts, last.target) + last.amount
        /\ Balance(accounts, last.self) + Balance(accounts, last.target)
             = Balance(pre.accounts, last.self) + Balance(pre.accounts, last.target)

TransferConservesWitness ==
    /\ last.op = "transfer"
    /\ result = Returned
    /\ pc = "idle"
    /\ last.amount = 200

\* C3: A.transfer(amount, A) raises InvalidAmountError, whatever the amount
\* and the balance, and changes nothing.
SelfTransferInvalidAmount ==
    (last.op = "transfer" /\ last.self = last.target) =>
        /\ Raised("InvalidAmountError")
        /\ accounts = pre.accounts

\* C4: a call of deposit, withdraw, transfer or mobile_topup with
\* amount <= 0 raises InvalidAmountError and changes no account.
NonPositiveAmountRejected ==
    (last.op \in AccountOps /\ last.amount <= 0) =>
        /\ Raised("InvalidAmountError")
        /\ accounts = pre.accounts

NonPositiveAmountWitness ==
    /\ last.op = "deposit"
    /\ last.amount = 0
    /\ Raised("InvalidAmountError")
    /\ Log(accounts, last.self) # <<>>

\* C5: a call of withdraw, mobile_topup, or transfer to another account, with
\* amount above the caller's balance raises InsufficientFundsError and
\* changes no account.
OverdrawRejected ==
    (/\ last.op \in {"withdraw", "transfer", "mobile_topup"}
     /\ last.op = "transfer" => last.target # last.self
     /\ last.amount > Balance(pre.accounts, last.self)) =>
        /\ Raised("InsufficientFundsError")
        /\ accounts = pre.accounts

OverdrawWitness ==
    /\ last.op = "mobile_topup"
    /\ last.amount > Balance(pre.accounts, last.self)
    /\ Raised("InsufficientFundsError")
    /\ Balance(accounts, last.self) > 0

\* the four effects of the transfer called last, against the state it was called in
TransferCalled == last.op \in {"transfer", "app_transfer"}

Sender == last.self

Receiver == last.target

Sum == IF last.op = "app_transfer" THEN last.amount.value ELSE last.amount

Debited == Balance(accounts, Sender) = Balance(pre.accounts, Sender) - Sum

Credited == Balance(accounts, Receiver) = Balance(pre.accounts, Receiver) + Sum

SentLogged ==
    Log(accounts, Sender)
      = Append(Log(pre.accounts, Sender), SentRecord(Sum, pre.accounts[Receiver]))

ReceivedLogged ==
    Log(accounts, Receiver)
      = Append(Log(pre.accounts, Receiver), ReceivedRecord(Sum, pre.accounts[Sender]))

NoEffect == accounts = pre.accounts

AllEffects == Debited /\ Credited /\ SentLogged /\ ReceivedLogged

\* the states in which the event loop can start a handler or update_display runs
Observable == pc \in {"idle", "L237"}

\* C6: in every state in which another handler can start or the display is
\* refreshed, a transfer has had none or all four of its effects, and the
\* display shows the sender as before the transfer or as after all of it.
TransferAtomic ==
    (Observable /\ TransferCalled) =>
        /\ NoEffect \/ AllEffects
        /\ display \in {update_display(pre.accounts, current),
                        update_display(accounts, current)}

\* update_display has run after a transfer and shows the sender debited and the record
TransferAtomicWitness ==
    /\ last.op = "app_transfer"
    /\ result = Returned
    /\ pc = "idle"
    /\ AllEffects
    /\ display = update_display(accounts, current)
    /\ display.text # <<>>

\* the calls made last that end in one step
SingleOps == {"deposit", "withdraw", "mobile_topup"}

Grown(a) == Len(Log(accounts, a)) - Len(Log(pre.accounts, a))

\* C7: an accepted deposit, withdraw or mobile_topup makes the log of its
\* account one longer and no other; an accepted transfer makes the sender's
\* log one longer and the receiver's one longer; a rejected call makes no
\* log longer.
LogGrowth ==
    /\ (last.op \in SingleOps /\ result = Returned) =>
          \A a \in DOMAIN accounts : Grown(a) = IF a = last.self THEN 1 ELSE 0
    /\ (last.op = "transfer" /\ result = Returned) =>
          /\ Grown(last.self) = 1
          /\ Grown(last.target) = 1
          /\ TotalTxns(accounts) = TotalTxns(pre.accounts) + 2
    /\ (last.op \in AccountOps /\ result.type \in {"InvalidAmountError", "InsufficientFundsError"}) =>
          \A a \in DOMAIN accounts : Grown(a) = 0

LogGrowthWitness ==
    /\ last.op = "transfer"
    /\ result = Returned
    /\ TotalTxns(accounts) = 3

\* C8: nothing a caller does with the value get_transactions returned
\* changes the log of any account.
ViewReadOnly ==
    (last.op \in {"view.append", "view.pop", "view.setitem"}) =>
        \A a \in DOMAIN accounts : Log(accounts, a) = Log(pre.accounts, a)

\* C9: in every step each account's log before the step is a prefix of its
\* log after the step.
LogAppendOnly ==
    [][\A a \in DOMAIN accounts :
          /\ a \in DOMAIN accounts'
          /\ IsPrefix(Log(accounts, a), Log(accounts', a))]_vars

\* a log of three records, built by three accepted calls
LogAppendOnlyWitness ==
    \E a \in DOMAIN accounts :
        /\ Len(Log(accounts, a)) = 3
        /\ last.op = "withdraw"
        /\ result = Returned

LoginUnchanged ==
    /\ accounts = pre.accounts
    /\ current = pre.current
    /\ screen = "main"

Registered(acc_no) == acc_no \in DOMAIN pre.accounts

\* C10 as stated: login with the stored secret of a registered number makes
\* that account the session; an unregistered number fails with "Account not
\* found", a wrong secret with "Incorrect password"; a failed login changes
\* neither the registry, nor an account, nor the session.
LoginOutcomeAsStated ==
    last.op = "login" =>
        /\ (Registered(last.acc_no) /\ last.password = pre.accounts[last.acc_no].password) =>
              /\ msg[1] = "showinfo"
              /\ current = last.acc_no
        /\ ~Registered(last.acc_no) =>
              /\ msg = showerror(<<"Account not found">>)
              /\ LoginUnchanged
        /\ (Registered(last.acc_no) /\ last.password # pre.accounts[last.acc_no].password) =>
              /\ msg = showerror(<<"Incorrect password">>)
              /\ LoginUnchanged

\* C10 amended: as stated, except that an unregistered number fails with
\* "Account not found" only when some account is registered; with no account
\* registered login fails with "No accounts available".
LoginOutcome ==
    last.op = "login" =>
        /\ (Registered(last.acc_no) /\ last.password = pre.accounts[last.acc_no].password) =>
              /\ msg[1] = "showinfo"
              /\ current = last.acc_no
              /\ screen = "dashboard"
        /\ (~Registered(last.acc_no) /\ DOMAIN pre.accounts # {}) =>
              /\ msg = showerror(<<"Account not found">>)
              /\ LoginUnchanged
        /\ DOMAIN pre.accounts = {} =>
              /\ msg = showerror(<<"No accounts available">>)
              /\ LoginUnchanged
        /\ (Registered(last.acc_no) /\ last.password # pre.accounts[last.acc_no].password) =>
              /\ msg = showerror(<<"Incorrect password">>)
              /\ LoginUnchanged

\* the secret of the other registered account is refused
LoginOutcomeWitness ==
    /\ last.op = "login"
    /\ Registered(last.acc_no)
    /\ \E other \in DOMAIN accounts : last.password = accounts[other].password
    /\ msg = showerror(<<"Incorrect password">>)
    /\ \E a \in DOMAIN accounts : Log(accounts, a) # <<>>

LoggedOut == current = None

LoggedIn == current \in DOMAIN accounts

\* C11: the session starts logged out; it is logged out exactly while the
\* main menu is shown and logged in while the dashboard is; it becomes
\* logged in only by a successful login made while logged out, a failed
\* login leaves it logged out, logout ends it, and logging out of the state
\* logout produced gives that state again.
SessionMachine ==
    /\ LoggedOut \/ LoggedIn
    /\ LoggedOut <=> screen = "main"
    /\ last.op = "__init__" => LoggedOut
    /\ current # pre.current =>
          \/ /\ last.op = "login"
             /\ msg[1] = "showinfo"
             /\ pre.current = None
             /\ current = last.acc_no
          \/ /\ last.op = "logout"
             /\ LoggedOut
    /\ (last.op = "login" /\ msg[1] = "showerror") => LoggedOut /\ pre.current = None
    /\ last.op = "logout" => LoggedOut /\ pre.current # None
    /\ logout(current).current = None
    /\ logout(logout(current).current) = logout(current)

\* a logout ending a session in which an operation was accepted
SessionMachineWitness ==
    /\ last.op = "logout"
    /\ LoggedOut
    /\ pre.current # None
    /\ \E a \in DOMAIN accounts : Log(accounts, a) # <<>>

\* C12: a sign-up with a number that is already registered fails with
\* "Account number already exists" and changes no account; whatever a
\* sign-up does, every account registered before it is what it was.
DuplicateRejected ==
    last.op = "sign_up" =>
        /\ last.acc_no \in DOMAIN pre.accounts =>
              /\ msg = showerror(<<"Account number already exists">>)
              /\ accounts = pre.accounts
        /\ \A a \in DOMAIN pre.accounts :
              /\ a \in DOMAIN accounts
              /\ accounts[a] = pre.accounts[a]

\* somebody else asks for the number of an account that has a history
DuplicateRejectedWitness ==
    /\ last.op = "sign_up"
    /\ last.acc_no \in DOMAIN pre.accounts
    /\ last.name \notin {"", pre.accounts[last.acc_no].name}
    /\ last.bal # <<pre.accounts[last.acc_no].balance>>
    /\ Log(accounts, last.acc_no) # <<>>

\* what C13 calls invalid input to account creation
EmptyNumber == last.acc_no = ""

EmptyName == last.name = ""

BadClass == Lower(last.acc_type) \notin {"personal", "business"}

NegativeOpening == last.bal # <<>> /\ \A i \in 1..Len(last.bal) : last.bal[i] < 0

InvalidSignUp == EmptyNumber \/ EmptyName \/ BadClass \/ NegativeOpening

\* C13 as stated: a sign-up with an empty number or name, an unknown class
\* or a negative opening balance ends with an error and inserts nothing.
SignUpInvalidAsStated ==
    (last.op = "sign_up" /\ InvalidSignUp) =>
        /\ msg[1] = "showerror"
        /\ accounts = pre.accounts

\* C13 amended: such a sign-up inserts nothing; it ends with an error only
\* when the number is taken or, number and name given, the class is unknown
\* ("Invalid account type..."), and without any message otherwise.
SignUpInvalid ==
    (last.op = "sign_up" /\ InvalidSignUp) =>
        /\ accounts = pre.accounts
        /\ (~EmptyNumber /\ last.acc_no \in DOMAIN pre.accounts) =>
              msg = showerror(<<"Account number already exists">>)
        /\ (~EmptyNumber /\ last.acc_no \notin DOMAIN pre.accounts /\ ~EmptyName /\ BadClass) =>
              msg = showerror(<<"Invalid account type. Please enter Personal or Business.">>)
        /\ (EmptyNumber \/ (last.acc_no \notin DOMAIN pre.accounts /\ (EmptyName \/ ~BadClass))) =>
              msg = NoMsg

\* a free number, a name, a class that is neither Personal nor Business
SignUpInvalidWitness ==
    /\ last.op = "sign_up"
    /\ last.acc_no \notin DOMAIN pre.accounts
    /\ ~EmptyNumber
    /\ ~EmptyName
    /\ last.acc_type = "gold"
    /\ msg[1] = "showerror"
    /\ DOMAIN accounts # {}

AbsentTarget == last.target \notin DOMAIN pre.accounts

OwnTarget == last.target = pre.current

\* C14 as stated, for a registry of two accounts: a recipient number that is
\* not registered fails with "Account not found", the own number with
\* another error, "Invalid recipient"; no account changes.
RecipientErrorsAsStated ==
    (last.op = "app_transfer" /\ Cardinality(DOMAIN pre.accounts) >= 2) =>
        /\ AbsentTarget =>
              /\ msg = showerror(<<"Account not found">>)
              /\ accounts = pre.accounts
        /\ OwnTarget =>
              /\ msg = showerror(<<"Invalid recipient">>)
              /\ accounts = pre.accounts

\* C14 amended: with two accounts registered both a number that is not
\* registered and the own number fail with the one error "Invalid
\* recipient"; with fewer registered the error is "Need at least 2
\* accounts"; BankAccount.transfer is not called and no account changes.
RecipientErrors ==
    (last.op = "app_transfer" /\ (AbsentTarget \/ OwnTarget)) =>
        /\ msg = IF Cardinality(DOMAIN pre.accounts) < 2
                 THEN showerror(<<"Need at least 2 accounts">>)
                 ELSE showerror(<<"Invalid recipient">>)
        /\ result = NotCalled
        /\ pc = "idle"
        /\ accounts = pre.accounts

\* a number nobody has, typed while two accounts are registered
RecipientErrorsWitness ==
    /\ last.op = "app_transfer"
    /\ last.target = "003"
    /\ msg = showerror(<<"Invalid recipient">>)
    /\ Balance(accounts, current) > 0

Records(accs, a) == {Log(accs, a)[i] : i \in 1..Len(Log(accs, a))}

LastRecord(accs, a) == Log(accs, a)[Len(Log(accs, a))]

TransferReturned == last.op = "transfer" /\ result = Returned

\* C15 as stated: an accepted transfer of x from S to R ends S's log with
\* "Sent <x> to <R.name> (Acc: <R.acc_no>)" and R's log with
\* "Received <x> from <S.name> (Acc: <S.acc_no>)".
TransferRecordsAsStated ==
    TransferReturned =>
        /\ LastRecord(accounts, Sender)
             = <<"Sent ", Sum, " to ", accounts[Receiver].name,
                 " (Acc: ", accounts[Receiver].acc_no, ")">>
        /\ LastRecord(accounts, Receiver)
             = <<"Received ", Sum, " from ", accounts[Sender].name,
                 " (Acc: ", accounts[Sender].acc_no, ")">>

\* the scenario of C15: 001/Alice with 1000 sends 200 to 002/Bob with 500
Scenario200 ==
    /\ TransferReturned
    /\ last.self = "001"
    /\ last.target = "002"
    /\ last.amount = 200
    /\ Balance(pre.accounts, "001") = 1000
    /\ Balance(pre.accounts, "002") = 500

\* C15 amended: the records are "Sent Nu.<x> to <R.name> (Acc: <R.acc_no>)"
\* and "Received Nu.<x> from <S.name> (Acc: <S.acc_no>)", each the last of
\* its log when transfer returns; in the scenario the balances become 800
\* and 700 and the logs contain "Sent Nu.200 to Bob (Acc: 002)" and
\* "Received Nu.200 from Alice (Acc: 001)".
TransferRecords ==
    /\ TransferReturned =>
          /\ Len(Log(accounts, Sender)) = Len(Log(pre.accounts, Sender)) + 1
          /\ LastRecord(accounts, Sender)
               = <<"Sent Nu.", Sum, " to ", accounts[Receiver].name,
                   " (Acc: ", accounts[Receiver].acc_no, ")">>
          /\ Len(Log(accounts, Receiver)) = Len(Log(pre.accounts, Receiver)) + 1
          /\ LastRecord(accounts, Receiver)
               = <<"Received Nu.", Sum, " from ", accounts[Sender].name,
                   " (Acc: ", accounts[Sender].acc_no, ")">>
    /\ Scenario200 =>
          /\ Balance(accounts, "001") = 800
          /\ Balance(accounts, "002") = 700
          /\ <<"Sent Nu.", 200, " to ", "Bob", " (Acc: ", "002", ")">> \in Records(accounts, "001")
          /\ <<"Received Nu.", 200, " from ", "Alice", " (Acc: ", "001", ")">>
               \in Records(accounts, "002")

TransferRecordsWitness ==
    /\ Scenario200
    /\ Balance(accounts, "001") = 800
    /\ Balance(accounts, "002") = 700

\* what get_transactions gives for account a in the present state
Got(a) == ViewItems(accounts, get_transactions(accounts, a))

\* C16: after an accepted deposit of a, get_transactions gives the log as it
\* was followed by "Deposited Nu.<a>"; after an accepted withdraw of b, the
\* log as it was followed by "Withdrew Nu.<b>".
TransactionsRecorded ==
    /\ (last.op = "deposit" /\ result = Returned) =>
          Got(last.self) = Log(pre.accounts, last.self) \o <<<<"Deposited Nu.", last.amount>>>>
    /\ (last.op = "withdraw" /\ result = Returned) =>
          Got(last.self) = Log(pre.accounts, last.self) \o <<<<"Withdrew Nu.", last.amount>>>>

\* the unit test's sequence: a deposit, then a withdrawal of another amount
TransactionsRecordedWitness ==
    /\ last.op = "withdraw"
    /\ result = Returned
    /\ Len(Got(last.self)) = 2
    /\ Got(last.self)[1][1] = "Deposited Nu."
    /\ Got(last.self)[1][2] # last.amount
    /\ Got(last.self)[2] = <<"Withdrew Nu.", last.amount>>

PositiveAmounts == {a \in Amounts : a > 0}

AfterDeposits(accs, self, a, b) == deposit(deposit(accs, self, a)[2], self, b)

Accepted == result.type \in {"running", "returned"}

Affordable == 0 < last.amount /\ last.amount <= Balance(pre.accounts, last.self)

\* C18: withdraw and mobile_topup are accepted exactly when
\* 0 < amount <= balance, transfer exactly when moreover the target is
\* another account; an accepted debit of the whole balance leaves 0.
DebitAccepted ==
    /\ last.op \in {"withdraw", "mobile_topup"} => (Accepted <=> Affordable)
    /\ last.op = "transfer" => (Accepted <=> (Affordable /\ last.target # last.self))
    /\ (/\ last.op \in {"withdraw", "mobile_topup", "transfer"}
        /\ result = Returned
        /\ last.amount = Balance(pre.accounts, last.self)) =>
          Balance(accounts, last.self) = 0

\* a transfer of the whole balance has returned
DebitAcceptedWitness ==
    /\ last.op = "transfer"
    /\ result = Returned
    /\ last.amount = Balance(pre.accounts, last.self)
    /\ Balance(accounts, last.self) = 0
    /\ Balance(accounts, last.target) >= last.amount

Static(acc) ==
    [acc_no |-> acc.acc_no, name |-> acc.name,
     password |-> acc.password, acc_type |-> acc.acc_type]

Dynamic(acc) == [balance |-> acc.balance, transactions |-> acc.transactions]

Existing == DOMAIN pre.accounts

\* the accounts the last call may have changed
Involved ==
    CASE last.op \in {"deposit", "withdraw", "mobile_topup",
                      "app_deposit", "app_withdraw", "app_mobile_topup"} -> {last.self}
      [] last.op \in {"transfer", "app_transfer"} -> {last.self, last.target}
      [] OTHER -> {}

\* C19: a deposit, withdrawal or top-up on A changes the balance and history
\* of A only, a transfer those of sender and target only; login, logout and
\* sign-up change no existing account's balance or history; and no call
\* removes an account or changes its number, name, password or type.
FrameEffects ==
    /\ Existing \subseteq DOMAIN accounts
    /\ \A k \in Existing : Static(accounts[k]) = Static(pre.accounts[k])
    /\ \A k \in Existing \ Involved : Dynamic(accounts[k]) = Dynamic(pre.accounts[k])
    /\ \A k \in DOMAIN accounts \ Existing :
          /\ last.op = "sign_up"
          /\ k = last.acc_no

\* a transfer through the window has returned while a third account is registered
FrameEffectsWitness ==
    /\ last.op = "app_transfer"
    /\ result = Returned
    /\ pc = "idle"
    /\ \E k \in Existing : k \notin Involved
    /\ \E k \in Involved : Dynamic(accounts[k]) # Dynamic(pre.accounts[k])

AppOps == {"app_deposit", "app_withdraw", "app_transfer", "app_mobile_topup"}

Issued == last.op \in AppOps /\ result # NotCalled

\* C20: self.current is None or the account the registry holds under that
\* account's own number; a deposit, withdraw, transfer or mobile_topup made
\* by the window is made on self.current while somebody is logged in, and
\* the target of a transfer is a registered account other than self.current.
ActiveAccount ==
    /\ \A k \in DOMAIN accounts : accounts[k].acc_no = k
    /\ current = None \/ (current \in DOMAIN accounts /\ accounts[current].acc_no = current)
    /\ last.op \in AppOps =>
          /\ pre.current \in DOMAIN pre.accounts
          /\ last.self = pre.current
          /\ current = pre.current
    /\ Issued =>
          \A k \in DOMAIN accounts :
             k \notin ({last.self} \cup (IF last.op = "app_transfer" THEN {last.target} ELSE {})) =>
                accounts[k] = pre.accounts[k]
    /\ (Issued /\ last.op = "app_transfer") =>
          /\ last.target \in DOMAIN pre.accounts
          /\ last.target # last.self
    /\ pc # "idle" =>
          /\ frame.self = current
          /\ frame.target \in DOMAIN accounts
          /\ frame.target # current

\* the window has made a transfer from the logged-in account to the other one
ActiveAccountWitness ==
    /\ Issued
    /\ last.op = "app_transfer"
    /\ result = Returned
    /\ current = last.self
    /\ last.target \in DOMAIN accounts \ {current}
    /\ Len(accounts[current].transactions) > Len(pre.accounts[current].transactions)
=============================================================================
